---- MODULE Spec2Model ----
(***************************************************************************)
(* A model of the chemfiles infrastructure core:                           *)
(*   - Topology (src/src/Topology.cpp): atom sequence and bond set;        *)
(*   - FormatFactory (src/src/FormatFactory.cpp): the format registry,     *)
(*     its mutex, the name lookup and the edit-distance suggestions;       *)
(*   - TRRFile (src/src/files/TRRFile.cpp): construction, destruction and  *)
(*     the translation of codec status codes into errors.                  *)
(* Strings that the code inspects character by character (format names)    *)
(* are sequences of one-character strings; C++ indices are kept 0-based.   *)
(***************************************************************************)
EXTENDS Integers, Sequences, FiniteSets, TLC

VARIABLES
    atoms_,        \* Topology::atoms_, the atom sequence
    connect_,      \* Topology::connect_, the bond set of the Connectivity
    topo_result,   \* the last Topology call and how it ended
    formats_,      \* FormatFactory::formats_, the registry table
    mutex,         \* the thread holding the registry mutex, or NoThread
    pc,            \* per thread: position inside a FormatFactory call
    call,          \* per thread: the call in progress and its arguments
    result,        \* per thread: what the finished call returned or threw
    trr,           \* the TRRFile object and its lifetime position
    res,           \* native resources: acquisitions and releases so far
    ed_in,         \* inputs of edit_distance
    ed_out         \* outputs of edit_distance

topo_vars == <<atoms_, connect_, topo_result>>
reg_vars  == <<formats_, mutex, pc, call, result>>
trr_vars  == <<trr, res>>
ed_vars   == <<ed_in, ed_out>>
vars == <<atoms_, connect_, topo_result, formats_, mutex, pc, call, result,
          trr, res, ed_in, ed_out>>

\* Tokens of a formatted message: literal text and interpolated arguments.
Lit(s) == [lit |-> s]
Arg(s) == [arg |-> s]

Min(S) == CHOOSE x \in S : \A y \in S : x <= y

\* std::to_string of an integer: its decimal digits, with a sign if negative.
DecimalDigits == <<"0", "1", "2", "3", "4", "5", "6", "7", "8", "9">>

RECURSIVE to_string(_)
to_string(n) ==
    IF n < 0 THEN <<"-">> \o to_string(0 - n)
    ELSE IF n < 10 THEN <<DecimalDigits[n + 1]>>
    ELSE to_string(n \div 10) \o <<DecimalDigits[(n % 10) + 1]>>

(***************************************************************************)
(* Topology                                                                *)
(***************************************************************************)
MaxAtoms == 4
MaxBonds == 4

UNDEFINED == "UNDEFINED"
AtomTypes == {UNDEFINED, "C"}

\* A bond is the pair of its two atom indices, smaller index first.
Bond(i, j) == IF i < j THEN <<i, j>> ELSE <<j, i>>

\* Variant: a resize that grows the vector but never truncates it.
VectorResizeGrowOnly(v, n, value) ==
    [k \in 1..(IF n < Len(v) THEN Len(v) ELSE n) |->
        IF k <= Len(v) THEN v[k] ELSE value]

\* std::vector::resize(n, value)
VectorResize(v, n, value) ==
    [k \in 1..n |-> IF k <= Len(v) THEN v[k] ELSE value]

\* std::vector::erase(begin() + idx), idx 0-based
VectorErase(v, idx) ==
    [k \in 1..(Len(v) - 1) |-> IF k <= idx THEN v[k] ELSE v[k + 1]]

\* Variant: the comparison of resize written with > instead of >=.
ResizeOffendersGt(bonds, natoms) ==
    {bond \in bonds : bond[1] > natoms \/ bond[2] > natoms}

\* The bonds that make Topology::resize(natoms) throw.
ResizeOffenders(bonds, natoms) ==
    {bond \in bonds : bond[1] >= natoms \/ bond[2] >= natoms}

ResizeError(natoms, bond) ==
    [kind |-> "Error",
     message |-> <<Lit("Can not resize the topology to "), Arg(to_string(natoms)),
                   Lit(" as there is a bond between atoms "),
                   Arg(to_string(bond[1])), Lit("-"),
                   Arg(to_string(bond[2])), Lit(".")>>]

Ok == [kind |-> "ok"]

\* Topology::resize: the first offending bond met by the loop is reported
\* (the iteration order of the bond set is not specified), otherwise the
\* atom vector is resized and new slots are UNDEFINED atoms.
resize(natoms) ==
    /\ IF ResizeOffenders(connect_, natoms) # {}
       THEN /\ \E bond \in ResizeOffenders(connect_, natoms) :
                 topo_result' = [op |-> "resize", arg |-> <<natoms>>,
                                 outcome |-> ResizeError(natoms, bond)]
            /\ atoms_' = atoms_
       ELSE /\ atoms_' = VectorResize(atoms_, natoms, UNDEFINED)
            /\ topo_result' = [op |-> "resize", arg |-> <<natoms>>,
                               outcome |-> Ok]
    /\ connect_' = connect_

\* Topology::append
append(atom) ==
    /\ Len(atoms_) < MaxAtoms
    /\ atoms_' = Append(atoms_, atom)
    /\ connect_' = connect_
    /\ topo_result' = [op |-> "append", arg |-> <<atom>>, outcome |-> Ok]

\* Topology::reserve: capacity only, the vector's contents are untouched.
reserve(natoms) ==
    /\ atoms_' = atoms_
    /\ connect_' = connect_
    /\ topo_result' = [op |-> "reserve", arg |-> <<natoms>>, outcome |-> Ok]

\* Connectivity::remove_bond
remove_bond(bonds, i, j) == bonds \ {Bond(i, j)}

\* Variant: the test of remove looking at the first endpoint only.
IsIncidentFirstOnly(bond, idx) == bond[1] = idx

\* The test of Topology::remove on one bond.
IsIncident(bond, idx) == bond[1] = idx \/ bond[2] = idx

\* The loop of Topology::remove over a copy of the bond set.
RECURSIVE RemoveIncident(_, _, _)
RemoveIncident(todo, bonds, idx) ==
    IF todo = {} THEN bonds
    ELSE LET bond == CHOOSE b \in todo : TRUE
         IN RemoveIncident(todo \ {bond},
                           IF IsIncident(bond, idx)
                           THEN remove_bond(bonds, bond[1], bond[2])
                           ELSE bonds,
                           idx)

\* Topology::remove, called with idx < size()
remove(idx) ==
    /\ idx < Len(atoms_)
    /\ atoms_' = VectorErase(atoms_, idx)
    /\ connect_' = RemoveIncident(connect_, connect_, idx)
    /\ topo_result' = [op |-> "remove", arg |-> <<idx>>, outcome |-> Ok]

\* Topology::add_bond between two distinct atoms of the topology; the
\* topologies explored hold at most MaxBonds bonds.
add_bond(i, j) ==
    /\ Cardinality(connect_ \cup {Bond(i, j)}) <= MaxBonds
    /\ i # j
    /\ i < Len(atoms_)
    /\ j < Len(atoms_)
    /\ connect_' = connect_ \cup {Bond(i, j)}
    /\ atoms_' = atoms_
    /\ topo_result' = [op |-> "add_bond", arg |-> <<i, j>>, outcome |-> Ok]

\* An angle is the triple of its atoms, the smaller end first.
Angle(i, j, k) == IF i < k THEN <<i, j, k>> ELSE <<k, j, i>>

\* A dihedral is the quadruple of its atoms, read from the end whose two
\* atoms have the smaller maximum.
Dihedral(i, j, k, m) ==
    LET front == IF i < j THEN j ELSE i
        back == IF k < m THEN m ELSE k
    IN IF front < back THEN <<i, j, k, m>> ELSE <<m, k, j, i>>

\* The endpoint of a bond that is not atom.
OtherEnd(bond, atom) == IF bond[1] = atom THEN bond[2] ELSE bond[1]

\* Connectivity::angles: one angle for every two bonds that share an atom.
connect_angles(bonds) ==
    UNION {IF first # second
           THEN {Angle(OtherEnd(first, shared), shared, OtherEnd(second, shared)) :
                    shared \in {first[1], first[2]} \cap {second[1], second[2]}}
           ELSE {} : first \in bonds, second \in bonds}

\* Connectivity::dihedrals: every angle extended by one more bond at either
\* end to an atom that is not in the angle.
connect_dihedrals(bonds) ==
    UNION {UNION {
        LET inside == {angle[1], angle[2], angle[3]}
            at_back == IF /\ angle[3] \in {bond[1], bond[2]}
                          /\ OtherEnd(bond, angle[3]) \notin inside
                       THEN {Dihedral(angle[1], angle[2], angle[3],
                                      OtherEnd(bond, angle[3]))}
                       ELSE {}
            at_front == IF /\ angle[1] \in {bond[1], bond[2]}
                           /\ OtherEnd(bond, angle[1]) \notin inside
                        THEN {Dihedral(OtherEnd(bond, angle[1]),
                                       angle[1], angle[2], angle[3])}
                        ELSE {}
        IN at_back \cup at_front : bond \in bonds} : angle \in connect_angles(bonds)}

\* res.insert(res.begin(), set.begin(), set.end()) into an empty vector:
\* every element once, in the order in which the set is iterated, which
\* the set does not fix. All the vectors that can come out.
RECURSIVE VectorInsert(_)
VectorInsert(set) ==
    IF set = {} THEN {<<>>}
    ELSE UNION {{<<first>> \o rest : rest \in VectorInsert(set \ {first})} :
                   first \in set}

\* Topology::angles: the vectors it can return.
angles(bonds) == VectorInsert(connect_angles(bonds))

\* Topology::dihedrals: the vectors it can return.
dihedrals(bonds) == VectorInsert(connect_dihedrals(bonds))

\* A call of a const accessor: one of the snapshots is handed to the caller.
Snapshot(op, values) ==
    /\ \E value \in values :
          topo_result' = [op |-> op, arg |-> <<>>,
                          outcome |-> [kind |-> "ok", value |-> value]]
    /\ atoms_' = atoms_
    /\ connect_' = connect_

TopologyInit ==
    /\ atoms_ = <<>>
    /\ connect_ = {}
    /\ topo_result = [op |-> "Topology", arg |-> <<>>, outcome |-> Ok]

Resize ==
    /\ \E natoms \in 0..MaxAtoms : resize(natoms)
    /\ UNCHANGED <<reg_vars, trr_vars, ed_vars>>

AppendAtom ==
    /\ \E atom \in AtomTypes : append(atom)
    /\ UNCHANGED <<reg_vars, trr_vars, ed_vars>>

Reserve ==
    /\ \E natoms \in 0..MaxAtoms : reserve(natoms)
    /\ UNCHANGED <<reg_vars, trr_vars, ed_vars>>

Remove ==
    /\ \E idx \in 0..(MaxAtoms - 1) : remove(idx)
    /\ UNCHANGED <<reg_vars, trr_vars, ed_vars>>

AddBond ==
    /\ \E i, j \in 0..(MaxAtoms - 1) : add_bond(i, j)
    /\ UNCHANGED <<reg_vars, trr_vars, ed_vars>>

Angles ==
    /\ Snapshot("angles", angles(connect_))
    /\ UNCHANGED <<reg_vars, trr_vars, ed_vars>>

Dihedrals ==
    /\ Snapshot("dihedrals", dihedrals(connect_))
    /\ UNCHANGED <<reg_vars, trr_vars, ed_vars>>

TopologyNext ==
    \/ Resize
    \/ AppendAtom
    \/ Reserve
    \/ Remove
    \/ AddBond
    \/ Angles
    \/ Dihedrals

(***************************************************************************)
(* FormatFactory                                                           *)
(***************************************************************************)
MaxFormats == 23

Threads == {1, 2}
NoThread == 0

SENTINEL_INDEX == -1

UpperCase == <<"A", "B", "C", "D", "E", "F", "G", "H", "I", "J", "K", "L", "M",
               "N", "O", "P", "Q", "R", "S", "T", "U", "V", "W", "X", "Y", "Z">>
LowerCase == <<"a", "b", "c", "d", "e", "f", "g", "h", "i", "j", "k", "l", "m",
               "n", "o", "p", "q", "r", "s", "t", "u", "v", "w", "x", "y", "z">>

\* std::tolower on one character
tolower(c) ==
    IF \E k \in 1..26 : UpperCase[k] = c
    THEN LowerCase[CHOOSE k \in 1..26 : UpperCase[k] = c]
    ELSE c

\* Variant: the characters compared without std::tolower.
CellCaseSensitive(distances, first, second, i, j) ==
    IF first[i] = second[j]
    THEN distances[i - 1][j - 1]
    ELSE Min({distances[i - 1][j] + 1,
              distances[i][j - 1] + 1,
              distances[i - 1][j - 1] + 1})

\* One cell of the Wagner-Fischer table, given the cells computed so far.
Cell(distances, first, second, i, j) ==
    IF tolower(first[i]) = tolower(second[j])
    THEN distances[i - 1][j - 1]
    ELSE Min({distances[i - 1][j] + 1,
              distances[i][j - 1] + 1,
              distances[i - 1][j - 1] + 1})

\* The inner loop of edit_distance: for (i = 1; i < m; i++), filling column
\* j of the table; m is the length of first plus one. A cell is an
\* unsigned, computed before the next iteration starts.
RECURSIVE FillColumn(_, _, _, _, _, _)
FillColumn(distances, first, second, m, i, j) ==
    IF i >= m THEN distances
    ELSE LET cell == Cell(distances, first, second, i, j)
         IN CASE cell \in Nat ->
                    FillColumn([distances EXCEPT ![i][j] = cell],
                               first, second, m, i + 1, j)

\* The outer loop: for (j = 1; j < n; j++), one column after the other; n
\* is the length of second plus one.
RECURSIVE FillTable(_, _, _, _, _, _)
FillTable(distances, first, second, m, n, j) ==
    IF j >= n THEN distances
    ELSE LET column == FillColumn(distances, first, second, m, 1, j)
         IN CASE DOMAIN column = DOMAIN distances ->
                    FillTable(column, first, second, m, n, j + 1)

\* edit_distance: the table starts at 0, row 0 and column 0 are set to the
\* index, the loops fill the rest, and the last cell is the answer.
edit_distance(first, second) ==
    LET m == Len(first) + 1
        n == Len(second) + 1
        border == [i \in 0..(m - 1) |-> [j \in 0..(n - 1) |->
                     IF j = 0 THEN i ELSE IF i = 0 THEN j ELSE 0]]
    IN FillTable(border, first, second, m, n, 1)[m - 1][n - 1]

\* Variant: the names compared without regard to letter case.
find_by_name_ignoring_case(formats, name) ==
    LET lower(str) == [k \in 1..Len(str) |-> tolower(str[k])]
        hits == {i \in 0..(Len(formats) - 1) :
                    lower(formats[i + 1].info.name) = lower(name)}
    IN IF hits = {} THEN SENTINEL_INDEX ELSE Min(hits)

\* Variant: the loop of find_by_name started at index 1.
find_by_name_skip_first(formats, name) ==
    LET hits == {i \in 1..(Len(formats) - 1) : formats[i + 1].info.name = name}
    IN IF hits = {} THEN SENTINEL_INDEX ELSE Min(hits)

\* find_by_name: the index (0-based) of the first entry with this name
find_by_name(formats, name) ==
    LET hits == {i \in 0..(Len(formats) - 1) : formats[i + 1].info.name = name}
    IN IF hits = {} THEN SENTINEL_INDEX ELSE Min(hits)

\* Variant: the loop of find_by_extension started at index 1.
find_by_extension_skip_first(formats, extension) ==
    LET hits == {i \in 1..(Len(formats) - 1) :
                    formats[i + 1].info.extension = extension}
    IN IF hits = {} THEN SENTINEL_INDEX ELSE Min(hits)

\* Variant: find_by_extension going on to the last matching entry.
find_by_extension_last(formats, extension) ==
    LET hits == {i \in 0..(Len(formats) - 1) :
                    formats[i + 1].info.extension = extension}
    IN IF hits = {} THEN SENTINEL_INDEX
       ELSE CHOOSE i \in hits : \A j \in hits : j <= i

\* find_by_extension: the index of the first entry with this extension
find_by_extension(formats, extension) ==
    LET hits == {i \in 0..(Len(formats) - 1) :
                    formats[i + 1].info.extension = extension}
    IN IF hits = {} THEN SENTINEL_INDEX ELSE Min(hits)

\* The " 'A' or 'B'" part of the message of suggest_names.
RECURSIVE SuggestionList(_, _)
SuggestionList(suggestions, k) ==
    IF k > Len(suggestions) THEN <<>>
    ELSE (IF k > 1 THEN <<Lit(" or")>> ELSE <<>>)
         \o <<Lit(" '"), Arg(suggestions[k]), Lit("'")>>
         \o SuggestionList(suggestions, k + 1)

SuggestionMessage(name, suggestions) ==
    <<Lit("can not find a format named '"), Arg(name), Lit("'")>>
    \o (IF suggestions # <<>>
        THEN <<Lit(", did you mean")>> \o SuggestionList(suggestions, 1)
             \o <<Lit("?")>>
        ELSE <<>>)

\* The formats that the constructor adds, in the order of its add_format
\* calls (the build with CIF support), each with the name and the extension
\* of its metadata.
BuiltinFormats ==
    <<
      [class |-> "XYZFormat",
       name |-> <<"X", "Y", "Z">>,
       extension |-> <<".", "x", "y", "z">>],
      [class |-> "PDBFormat",
       name |-> <<"P", "D", "B">>,
       extension |-> <<".", "p", "d", "b">>],
      [class |-> "TNGFormat",
       name |-> <<"T", "N", "G">>,
       extension |-> <<".", "t", "n", "g">>],
      [class |-> "AmberNetCDFFormat",
       name |-> <<"A", "m", "b", "e", "r", " ", "N", "e", "t", "C", "D", "F">>,
       extension |-> <<".", "n", "c">>],
      [class |-> "TinkerFormat",
       name |-> <<"T", "i", "n", "k", "e", "r">>,
       extension |-> <<".", "a", "r", "c">>],
      [class |-> "LAMMPSDataFormat",
       name |-> <<"L", "A", "M", "M", "P", "S", " ", "D", "a", "t", "a">>,
       extension |-> <<>>],
      [class |-> "SDFFormat",
       name |-> <<"S", "D", "F">>,
       extension |-> <<".", "s", "d", "f">>],
      [class |-> "CSSRFormat",
       name |-> <<"C", "S", "S", "R">>,
       extension |-> <<".", "c", "s", "s", "r">>],
      [class |-> "GROFormat",
       name |-> <<"G", "R", "O">>,
       extension |-> <<".", "g", "r", "o">>],
      [class |-> "MOL2Format",
       name |-> <<"M", "O", "L", "2">>,
       extension |-> <<".", "m", "o", "l", "2">>],
      [class |-> "mmCIFFormat",
       name |-> <<"m", "m", "C", "I", "F">>,
       extension |-> <<".", "m", "m", "c", "i", "f">>],
      [class |-> "MMTFFormat",
       name |-> <<"M", "M", "T", "F">>,
       extension |-> <<".", "m", "m", "t", "f">>],
      [class |-> "DCDFormat",
       name |-> <<"D", "C", "D">>,
       extension |-> <<".", "d", "c", "d">>],
      [class |-> "CMLFormat",
       name |-> <<"C", "M", "L">>,
       extension |-> <<".", "c", "m", "l">>],
      [class |-> "SMIFormat",
       name |-> <<"S", "M", "I">>,
       extension |-> <<".", "s", "m", "i">>],
      [class |-> "TRRFormat",
       name |-> <<"T", "R", "R">>,
       extension |-> <<".", "t", "r", "r">>],
      [class |-> "XTCFormat",
       name |-> <<"X", "T", "C">>,
       extension |-> <<".", "x", "t", "c">>],
      [class |-> "CIFFormat",
       name |-> <<"C", "I", "F">>,
       extension |-> <<".", "c", "i", "f">>],
      [class |-> "Molfile<TRJ>",
       name |-> <<"T", "R", "J">>,
       extension |-> <<".", "t", "r", "j">>],
      [class |-> "Molfile<LAMMPS>",
       name |-> <<"L", "A", "M", "M", "P", "S">>,
       extension |-> <<".", "l", "a", "m", "m", "p", "s", "t", "r", "j">>],
      [class |-> "Molfile<MOLDEN>",
       name |-> <<"M", "o", "l", "d", "e", "n">>,
       extension |-> <<".", "m", "o", "l", "d", "e", "n">>]
    >>

NamesOf(formats) == [k \in 1..Len(formats) |-> formats[k].info.name]

\* Names and extensions the calls are made with.
XYZ == <<"X", "Y", "Z">>
xyz == <<"x", "y", "z">>
XTC == <<"X", "T", "C">>
Tinker == <<"T", "i", "n", "k", "e", "r">>
Ti == <<"T", "i">>
HOOMD == <<"H", "O", "O", "M", "D">>

RegisterNames == {<<>>, XYZ, xyz, Ti}
QueryNames == {XYZ, xyz, Tinker, XTC, Ti, HOOMD}

\* The names a table can hold.
KnownNames ==
    {BuiltinFormats[k].name : k \in 1..Len(BuiltinFormats)} \cup RegisterNames

\* edit_distance for the names the calls are made with, computed once.
EditDistanceTable ==
    [first \in QueryNames |->
        [second \in KnownNames |-> edit_distance(first, second)]]

\* The call of edit_distance in suggest_names: the value is read from the
\* table when the table has it.
edit_distance_call(first, second) ==
    IF first \in QueryNames /\ second \in KnownNames
    THEN EditDistanceTable[first][second]
    ELSE edit_distance(first, second)

\* Variant: the threshold of suggest_names written <= 4.
suggest_names_le(formats, name) ==
    SuggestionMessage(name,
        SelectSeq(NamesOf(formats), LAMBDA other : edit_distance_call(name, other) <= 4))

\* suggest_names: the registered names at edit distance < 4, in table order
suggest_names(formats, name) ==
    SuggestionMessage(name,
        SelectSeq(NamesOf(formats), LAMBDA other : edit_distance_call(name, other) < 4))

FormatError(message) == [kind |-> "FormatError", message |-> message]
Returned(value) == [kind |-> "ok", value |-> value]

dot_xyz == <<".", "x", "y", "z">>
dot_new == <<".", "n", "e", "w">>
Extensions == {<<>>, dot_xyz, dot_new}
\* A memory_stream_t value: the function it wraps and, for the lambda of the
\* two-argument register_format, the FormatInfo it captured.
MemoryFunction(fn) == [fn |-> fn]

Creators == {[creator |-> "creator_1", memory_stream |-> MemoryFunction("memory_1")]}
QueryExtensions == {<<>>, dot_xyz, dot_new}

RegisteredFormat(name, extension, creator, memory_stream) ==
    [info |-> [name |-> name, extension |-> extension],
     creator |-> creator,
     memory_stream_creator |-> memory_stream]

NoCall == [op |-> "none"]
NoResult == [kind |-> "none"]

\* formats_.lock(): blocks until the mutex is free, then holds it.
Lock(t) ==
    /\ mutex = NoThread
    /\ mutex' = t

\* The guard goes out of scope, on return and on throw alike.
Unlock(t) == mutex' = NoThread

\* Variant: the entry inserted at the front of the table.
push_front(formats, entry) == <<entry>> \o formats

\* formats.push_back(entry)
push_back(formats, entry) == Append(formats, entry)

\* The checks of register_format (lines 93-114): the error thrown, or Ok.
RegisterCheck(formats, name, extension) ==
    IF name = <<>>
    THEN FormatError(<<Lit("can not register a format with no name")>>)
    ELSE IF find_by_name(formats, name) # SENTINEL_INDEX
    THEN FormatError(<<Lit("there is already a format associated with the name '"),
                       Arg(name), Lit("'")>>)
    ELSE IF extension # <<>> /\ find_by_extension(formats, extension) # SENTINEL_INDEX
    THEN FormatError(<<Lit("the extension '"), Arg(extension),
                       Lit("' is already associated with format '"),
                       Arg(formats[find_by_extension(formats, extension) + 1].info.name),
                       Lit("'")>>)
    ELSE Ok

\* register_format, entry: the arguments are bound and the mutex is taken.
register_format_lock(t, name, extension, creator, memory_stream) ==
    /\ pc[t] = "idle"
    /\ Len(formats_) < MaxFormats
    /\ Lock(t)
    /\ pc' = [pc EXCEPT ![t] = "register_check"]
    /\ call' = [call EXCEPT ![t] =
                  [op |-> "register_format", name |-> name,
                   extension |-> extension, creator |-> creator,
                   memory_stream |-> memory_stream]]
    /\ UNCHANGED <<formats_, result>>

\* register_format, lines 93-114: a failed check throws, the guard unlocks.
register_format_check(t) ==
    /\ pc[t] = "register_check"
    /\ LET outcome == RegisterCheck(formats_, call[t].name, call[t].extension)
       IN IF outcome = Ok
          THEN /\ pc' = [pc EXCEPT ![t] = "register_push"]
               /\ UNCHANGED <<mutex, result>>
          ELSE /\ pc' = [pc EXCEPT ![t] = "done"]
               /\ result' = [result EXCEPT ![t] = outcome]
               /\ Unlock(t)
    /\ UNCHANGED <<formats_, call>>

\* register_format, line 117, and the return.
register_format_push(t) ==
    /\ pc[t] = "register_push"
    /\ formats_' = push_back(formats_,
                       RegisteredFormat(call[t].name, call[t].extension,
                                        call[t].creator, call[t].memory_stream))
    /\ pc' = [pc EXCEPT ![t] = "done"]
    /\ result' = [result EXCEPT ![t] = Ok]
    /\ Unlock(t)
    /\ UNCHANGED call

\* The lambda that the two-argument register_format passes as memory
\* stream creator; it captures info by copy.
UnsupportedMemory(info) == [fn |-> "unsupported", info |-> info]

\* register_format(info, creator): a call of the three-argument overload.
register_format_2_lock(t, name, extension, creator) ==
    register_format_lock(t, name, extension, creator,
        UnsupportedMemory([name |-> name, extension |-> extension]))

Modes == {"READ", "WRITE"}
Compressions == {"DEFAULT", "GZIP"}

\* Variant: the lambda throwing only when asked to write.
memory_stream_call_read_allowed(memory_stream, mode, compression) ==
    IF memory_stream.fn = "unsupported" /\ mode # "READ"
    THEN FormatError(<<Lit("in-memory IO is not supported for the '"),
                       Arg(memory_stream.info.name), Lit("' format")>>)
    ELSE Returned([format |-> memory_stream.fn, mode |-> mode,
                   compression |-> compression])

\* A call of a memory_stream_t: the lambda of lines 122-124 throws, a
\* creator supplied by the caller builds its format.
memory_stream_call(memory_stream, mode, compression) ==
    IF memory_stream.fn = "unsupported"
    THEN FormatError(<<Lit("in-memory IO is not supported for the '"),
                       Arg(memory_stream.info.name), Lit("' format")>>)
    ELSE Returned([format |-> memory_stream.fn, mode |-> mode,
                   compression |-> compression])

\* The caller invokes the constructor that memory_stream returned.
invoke_memory_stream(t, mode, compression) ==
    /\ pc[t] = "done"
    /\ call[t].op = "memory_stream"
    /\ result[t].kind = "ok"
    /\ call' = [call EXCEPT ![t] =
                  [op |-> "memory_stream_call", memory_stream |-> result[t].value,
                   mode |-> mode, compression |-> compression]]
    /\ result' = [result EXCEPT ![t] =
                    memory_stream_call(result[t].value, mode, compression)]
    /\ UNCHANGED <<formats_, mutex, pc>>

\* FormatFactory::name and FormatFactory::memory_stream, entry.
lookup_lock(t, op, name) ==
    /\ pc[t] = "idle"
    /\ Lock(t)
    /\ pc' = [pc EXCEPT ![t] = "lookup_find"]
    /\ call' = [call EXCEPT ![t] = [op |-> op, name |-> name]]
    /\ UNCHANGED <<formats_, result>>

\* The field of the entry that the lookup returns.
LookupField(op, entry) ==
    IF op = "name" THEN entry.creator ELSE entry.memory_stream_creator

\* Variant: the guard released before the suggestions are computed.
lookup_find_unlock_before_scan(t) ==
    /\ pc[t] = "lookup_find"
    /\ LET idx == find_by_name(formats_, call[t].name)
       IN IF idx = SENTINEL_INDEX
          THEN /\ pc' = [pc EXCEPT ![t] = "lookup_suggest"]
               /\ Unlock(t)
               /\ UNCHANGED result
          ELSE /\ pc' = [pc EXCEPT ![t] = "done"]
               /\ result' = [result EXCEPT ![t] =
                                Returned(LookupField(call[t].op, formats_[idx + 1]))]
               /\ Unlock(t)
    /\ UNCHANGED <<formats_, call>>

\* find_by_name and, when found, the return of the entry's constructor;
\* when not found the call goes on to the suggestions, the guard still alive.
lookup_find(t) ==
    /\ pc[t] = "lookup_find"
    /\ LET idx == find_by_name(formats_, call[t].name)
       IN IF idx = SENTINEL_INDEX
          THEN /\ pc' = [pc EXCEPT ![t] = "lookup_suggest"]
               /\ UNCHANGED <<mutex, result>>
          ELSE /\ pc' = [pc EXCEPT ![t] = "done"]
               /\ result' = [result EXCEPT ![t] =
                                Returned(LookupField(call[t].op, formats_[idx + 1]))]
               /\ Unlock(t)
    /\ UNCHANGED <<formats_, call>>

\* suggest_names on the table, then throw FormatError(suggestions).
lookup_suggest(t) ==
    /\ pc[t] = "lookup_suggest"
    /\ result' = [result EXCEPT ![t] =
                    FormatError(suggest_names(formats_, call[t].name))]
    /\ pc' = [pc EXCEPT ![t] = "done"]
    /\ Unlock(t)
    /\ UNCHANGED <<formats_, call>>

\* FormatFactory::name from the lock to the return or the throw.
name_result(formats, name) ==
    LET idx == find_by_name(formats, name)
    IN IF idx = SENTINEL_INDEX
       THEN FormatError(suggest_names(formats, name))
       ELSE Returned(formats[idx + 1].creator)

\* Variant: memory_stream throwing its message without the suggestions.
memory_stream_result_plain_message(formats, name) ==
    LET idx == find_by_name(formats, name)
    IN IF idx = SENTINEL_INDEX
       THEN FormatError(SuggestionMessage(name, <<>>))
       ELSE Returned(formats[idx + 1].memory_stream_creator)

\* FormatFactory::memory_stream from the lock to the return or the throw.
memory_stream_result(formats, name) ==
    LET idx == find_by_name(formats, name)
    IN IF idx = SENTINEL_INDEX
       THEN FormatError(suggest_names(formats, name))
       ELSE Returned(formats[idx + 1].memory_stream_creator)

\* FormatFactory::extension, entry.
extension_lock(t, extension) ==
    /\ pc[t] = "idle"
    /\ Lock(t)
    /\ pc' = [pc EXCEPT ![t] = "extension_find"]
    /\ call' = [call EXCEPT ![t] = [op |-> "extension", extension |-> extension]]
    /\ UNCHANGED <<formats_, result>>

\* FormatFactory::extension, lines 157-163: the creator of the entry found,
\* or a format error naming the extension.
extension_find(t) ==
    /\ pc[t] = "extension_find"
    /\ LET idx == find_by_extension(formats_, call[t].extension)
       IN result' = [result EXCEPT ![t] =
            IF idx = SENTINEL_INDEX
            THEN FormatError(<<Lit("can not find a format associated with the '"),
                               Arg(call[t].extension), Lit("' extension")>>)
            ELSE Returned(formats_[idx + 1].creator)]
    /\ pc' = [pc EXCEPT ![t] = "done"]
    /\ Unlock(t)
    /\ UNCHANGED <<formats_, call>>

\* Variant: the metadata vector filled from the back.
metadata_reversed(formats) ==
    [k \in 1..Len(formats) |-> formats[Len(formats) + 1 - k].info]

\* The loop of FormatFactory::formats: the info of every entry, in order.
metadata(formats) == [k \in 1..Len(formats) |-> formats[k].info]

\* FormatFactory::formats, entry.
formats_lock(t) ==
    /\ pc[t] = "idle"
    /\ Lock(t)
    /\ pc' = [pc EXCEPT ![t] = "formats_copy"]
    /\ call' = [call EXCEPT ![t] = [op |-> "formats"]]
    /\ UNCHANGED <<formats_, result>>

\* FormatFactory::formats, lines 168-173.
formats_copy(t) ==
    /\ pc[t] = "formats_copy"
    /\ result' = [result EXCEPT ![t] = Returned(metadata(formats_))]
    /\ pc' = [pc EXCEPT ![t] = "done"]
    /\ Unlock(t)
    /\ UNCHANGED <<formats_, call>>

\* The caller has its result and is ready for another call.
finish(t) ==
    /\ pc[t] = "done"
    /\ pc' = [pc EXCEPT ![t] = "idle"]
    /\ call' = [call EXCEPT ![t] = NoCall]
    /\ result' = [result EXCEPT ![t] = NoResult]
    /\ UNCHANGED <<formats_, mutex>>

\* add_format<T>(): register_format with the metadata of T and the two
\* constructors of T; a refused registration throws out of the constructor.
add_format(formats, builtin) ==
    CASE RegisterCheck(formats, builtin.name, builtin.extension) = Ok ->
            push_back(formats,
                      RegisteredFormat(builtin.name, builtin.extension,
                                       builtin.class, MemoryFunction(builtin.class)))

\* The add_format calls of the constructor, from the k-th on; each call
\* has added its entry before the next one starts.
RECURSIVE AddFormats(_, _)
AddFormats(formats, k) ==
    IF k > Len(BuiltinFormats) THEN formats
    ELSE LET added == add_format(formats, BuiltinFormats[k])
         IN CASE Len(added) = k -> AddFormats(added, k + 1)

\* The table when the constructor has returned.
BuiltinTable == AddFormats(<<>>, 1)

\* FormatFactory::FormatFactory: the table holds the built-in formats.
FormatFactoryInit ==
    /\ formats_ = BuiltinTable
    /\ mutex = NoThread
    /\ pc = [t \in Threads |-> "idle"]
    /\ call = [t \in Threads |-> NoCall]
    /\ result = [t \in Threads |-> NoResult]

RegisterFormatLock ==
    /\ \E t \in Threads, name \in RegisterNames, extension \in Extensions, c \in Creators :
               register_format_lock(t, name, extension, c.creator, c.memory_stream)
    /\ UNCHANGED <<topo_vars, trr_vars, ed_vars>>

RegisterFormat2Lock ==
    /\ \E t \in Threads, name \in RegisterNames, extension \in Extensions :
               register_format_2_lock(t, name, extension, "creator_3")
    /\ UNCHANGED <<topo_vars, trr_vars, ed_vars>>

InvokeMemoryStream ==
    /\ \E t \in Threads, mode \in Modes, compression \in Compressions :
               invoke_memory_stream(t, mode, compression)
    /\ UNCHANGED <<topo_vars, trr_vars, ed_vars>>

RegisterFormatCheck ==
    /\ \E t \in Threads : register_format_check(t)
    /\ UNCHANGED <<topo_vars, trr_vars, ed_vars>>

RegisterFormatPush ==
    /\ \E t \in Threads : register_format_push(t)
    /\ UNCHANGED <<topo_vars, trr_vars, ed_vars>>

NameLock ==
    /\ \E t \in Threads, name \in QueryNames : lookup_lock(t, "name", name)
    /\ UNCHANGED <<topo_vars, trr_vars, ed_vars>>

MemoryStreamLock ==
    /\ \E t \in Threads, name \in QueryNames : lookup_lock(t, "memory_stream", name)
    /\ UNCHANGED <<topo_vars, trr_vars, ed_vars>>

LookupFind ==
    /\ \E t \in Threads : lookup_find(t)
    /\ UNCHANGED <<topo_vars, trr_vars, ed_vars>>

LookupSuggest ==
    /\ \E t \in Threads : lookup_suggest(t)
    /\ UNCHANGED <<topo_vars, trr_vars, ed_vars>>

ExtensionLock ==
    /\ \E t \in Threads, extension \in QueryExtensions : extension_lock(t, extension)
    /\ UNCHANGED <<topo_vars, trr_vars, ed_vars>>

ExtensionFind ==
    /\ \E t \in Threads : extension_find(t)
    /\ UNCHANGED <<topo_vars, trr_vars, ed_vars>>

FormatsLock ==
    /\ \E t \in Threads : formats_lock(t)
    /\ UNCHANGED <<topo_vars, trr_vars, ed_vars>>

FormatsCopy ==
    /\ \E t \in Threads : formats_copy(t)
    /\ UNCHANGED <<topo_vars, trr_vars, ed_vars>>

Finish ==
    /\ \E t \in Threads : finish(t)
    /\ UNCHANGED <<topo_vars, trr_vars, ed_vars>>

FormatFactoryNext ==
    \/ RegisterFormatLock
    \/ RegisterFormat2Lock
    \/ InvokeMemoryStream
    \/ RegisterFormatCheck
    \/ RegisterFormatPush
    \/ NameLock
    \/ MemoryStreamLock
    \/ LookupFind
    \/ LookupSuggest
    \/ ExtensionLock
    \/ ExtensionFind
    \/ FormatsLock
    \/ FormatsCopy
    \/ Finish

(***************************************************************************)
(* TRRFile                                                                 *)
(***************************************************************************)
\* Status codes of the xdrfile codec, as named in check_trr_error.
exdrOK == 0
exdrHEADER == 1
exdrSTRING == 2
exdrDOUBLE == 3
exdrINT == 4
exdrFLOAT == 5
exdrUINT == 6
exdr3DX == 7
exdrCLOSE == 8
exdrMAGIC == 9
exdrNOMEM == 10
exdrENDOFFILE == 11
exdrFILENOTFOUND == 12
exdrNR == 13

\* The codec's message table, one text per status below exdrNR.
exdr_message ==
    [status \in exdrOK..(exdrNR - 1) |->
        <<"OK", "Header", "String", "Double", "Integer", "Float",
          "Unsigned integer", "Compressed 3D coordinate", "Closing file",
          "Magic number", "Not enough memory", "End of file",
          "File not found">>[status + 1]]

\* What exdr_message[status] holds as a const char*: a text, a null pointer
\* or an address that can not be read.
Text(text) == [pointer |-> "text", text |-> text]
NullPointer == [pointer |-> "null"]
UnreadablePointer == [pointer |-> "unreadable"]

\* What a read of exdr_message[status] can give: the entry, or, one past
\* the end of the table, whatever word lies there.
ExdrMessageRead(status) ==
    IF status \in DOMAIN exdr_message
    THEN {Text(exdr_message[status])}
    ELSE {Text("<indeterminate>"), Text(""), NullPointer, UnreadablePointer}

\* Status values the codec calls are made to return: the known ones and
\* two outside the known set.
StatusCodes == exdrOK..exdrNR \cup {-1, exdrNR + 1}

FileError(message) == [kind |-> "FileError", message |-> message]

\* std::string(const char*) on a null pointer throws std::logic_error,
\* which is no chemfiles::Error.
LogicError ==
    [kind |-> "std::logic_error",
     message |-> <<Lit("basic_string: construction from null is not valid")>>]

\* The process is stopped by the use of an address it does not own.
Crash == [kind |-> "crash"]

\* Lines 63-64: std::string(exdr_message[status]) and the throw.
ThrowWithMessage(function, read) ==
    IF read.pointer = "text"
    THEN FileError(<<Lit("error while calling "), Arg(function),
                     Lit(" in the TRR library: "), Arg(read.text)>>)
    ELSE IF read.pointer = "null" THEN LogicError
    ELSE Crash

\* check_trr_error: the possible outcomes for a status, Ok meaning that the
\* call returns normally.
check_trr_error(status, function) ==
    IF status \in exdrHEADER..exdrNR
    THEN {ThrowWithMessage(function, read) : read \in ExdrMessageRead(status)}
    ELSE IF status = exdrOK
    THEN {Ok}
    ELSE {FileError(<<Lit("unknown status code from TRR library: "),
                      Arg(to_string(status))>>)}

\* The text CHECK passes as the function: the stringified expression.
ReadHeaderCall ==
    "read_trr_header(this->path().c_str(), &natoms_, &nframes_, &offsets_)"

FileModes == {"READ", "WRITE", "APPEND"}

NoResources == [handle_acquired |-> 0, handle_released |-> 0,
                table_acquired |-> 0, table_released |-> 0,
                stray_free |-> 0]

\* read_trr_header: on exdrOK the codec has allocated the offset table and
\* stored it in offsets_; otherwise offsets_ is left as it was.
AfterHeader(file, status) ==
    IF status = exdrOK
    THEN [file EXCEPT !.offsets_ = "table", !.header_read = TRUE, !.status = status]
    ELSE [file EXCEPT !.header_read = TRUE, !.status = status]

HeaderResources(r, status) ==
    IF status = exdrOK THEN [r EXCEPT !.table_acquired = @ + 1] ELSE r

\* The constructor's member initializers: handle_ is set to nullptr, the
\* other members are not mentioned and offsets_ holds whatever the object
\* started with.
trr_construct(path, mode, offsets) ==
    /\ trr.pc = "none"
    /\ trr' = [pc |-> "header", path |-> path, mode |-> mode,
               handle_ |-> "nullptr", offsets_ |-> offsets,
               header_read |-> FALSE, status |-> exdrOK, error |-> Ok]
    /\ res' = NoResources

\* Lines 17-19: READ mode reads the header and checks its status.
trr_header_read(status) ==
    /\ trr.pc = "header"
    /\ trr.mode = "READ"
    /\ \E outcome \in check_trr_error(status, ReadHeaderCall) :
         trr' = [AfterHeader(trr, status) EXCEPT
                    !.pc = IF outcome = Ok THEN "open"
                           ELSE IF outcome = Crash THEN "crashed"
                           ELSE "failed",
                    !.error = outcome]
    /\ res' = HeaderResources(res, status)

\* Lines 20-21: WRITE mode reads no header.
trr_header_write ==
    /\ trr.pc = "header"
    /\ trr.mode = "WRITE"
    /\ trr' = [trr EXCEPT !.pc = "open"]
    /\ res' = res

\* Lines 22-27: APPEND mode reads the header and does not look at the
\* status, as the file might not exist.
trr_header_append(status) ==
    /\ trr.pc = "header"
    /\ trr.mode = "APPEND"
    /\ trr' = [AfterHeader(trr, status) EXCEPT !.pc = "open"]
    /\ res' = HeaderResources(res, status)

\* Lines 29-32: xdrfile_open gives a handle or NULL; NULL throws out of the
\* constructor, so the destructor of this object never runs.
trr_open(opened) ==
    /\ trr.pc = "open"
    /\ IF opened
       THEN /\ trr' = [trr EXCEPT !.pc = "alive", !.handle_ = "handle"]
            /\ res' = [res EXCEPT !.handle_acquired = @ + 1]
       ELSE /\ trr' = [trr EXCEPT !.pc = "failed",
                          !.error = FileError(<<Lit("could not open the file at "),
                                                Arg(trr.path)>>)]
            /\ res' = res

\* free(pointer): returns for nullptr and for the table the codec
\* allocated; for a pointer that was never initialised the call is
\* undefined, and either returns or stops the process.
free(pointer) ==
    IF pointer = "indeterminate" THEN {"returns", "crash"} ELSE {"returns"}

\* TRRFile::~TRRFile: xdrfile_close(handle_); free(offsets_);
trr_destroy ==
    /\ trr.pc = "alive"
    /\ \E outcome \in free(trr.offsets_) :
          trr' = IF outcome = "returns"
                 THEN [trr EXCEPT !.pc = "destroyed"]
                 ELSE [trr EXCEPT !.pc = "crashed", !.error = Crash]
    /\ res' = [res EXCEPT
                 !.handle_released = @ + 1,
                 !.table_released = IF trr.offsets_ = "table" THEN @ + 1 ELSE @,
                 !.stray_free = IF trr.offsets_ = "indeterminate" THEN @ + 1 ELSE @]

TRRFileInit ==
    /\ trr = [pc |-> "none"]
    /\ res = NoResources

TrrConstruct ==
    /\ \E mode \in FileModes, offsets \in {"nullptr", "indeterminate"} :
               trr_construct("traj.trr", mode, offsets)
    /\ UNCHANGED <<topo_vars, reg_vars, ed_vars>>

TrrHeaderRead ==
    /\ \E status \in StatusCodes : trr_header_read(status)
    /\ UNCHANGED <<topo_vars, reg_vars, ed_vars>>

TrrHeaderWrite ==
    /\ trr_header_write
    /\ UNCHANGED <<topo_vars, reg_vars, ed_vars>>

TrrHeaderAppend ==
    /\ \E status \in StatusCodes : trr_header_append(status)
    /\ UNCHANGED <<topo_vars, reg_vars, ed_vars>>

TrrOpen ==
    /\ \E opened \in BOOLEAN : trr_open(opened)
    /\ UNCHANGED <<topo_vars, reg_vars, ed_vars>>

TrrDestroy ==
    /\ trr_destroy
    /\ UNCHANGED <<topo_vars, reg_vars, ed_vars>>

TRRFileNext ==
    \/ TrrConstruct
    \/ TrrHeaderRead
    \/ TrrHeaderWrite
    \/ TrrHeaderAppend
    \/ TrrOpen
    \/ TrrDestroy

(***************************************************************************)
(* edit_distance as a function of its two arguments                        *)
(***************************************************************************)
MaxLen == 2

Alphabet == {"a", "A", "b"}

RECURSIVE StringsUpTo(_)
StringsUpTo(n) ==
    IF n = 0 THEN {<<>>}
    ELSE LET shorter == StringsUpTo(n - 1)
         IN shorter \cup {Append(s, c) : s \in shorter, c \in Alphabet}

gro == <<"g", "r", "o">>
xtc == <<"x", "t", "c">>

EditInputs == StringsUpTo(MaxLen) \cup {gro, xyz, xtc}

NoDistances == [computed |-> FALSE]

edit_distances ==
    /\ ~ed_out.computed
    /\ ed_out' = [computed |-> TRUE,
                  ab |-> edit_distance(ed_in.a, ed_in.b),
                  ba |-> edit_distance(ed_in.b, ed_in.a),
                  bc |-> edit_distance(ed_in.b, ed_in.c),
                  ac |-> edit_distance(ed_in.a, ed_in.c),
                  aa |-> edit_distance(ed_in.a, ed_in.a)]
    /\ ed_in' = ed_in

EditDistances ==
    /\ edit_distances
    /\ UNCHANGED <<topo_vars, reg_vars, trr_vars>>

EditNext == EditDistances

EditInit ==
    /\ ed_in \in [a : EditInputs, b : EditInputs, c : EditInputs]
    /\ ed_out = NoDistances

EditIdle ==
    /\ ed_in = [a |-> <<>>, b |-> <<>>, c |-> <<>>]
    /\ ed_out = NoDistances

(***************************************************************************)
(* Specifications: one per component, the other components at rest.        *)
(***************************************************************************)
\* Every component freshly constructed, no edit_distance call under study.
Init == TopologyInit /\ FormatFactoryInit /\ TRRFileInit /\ EditIdle

\* The same, with the arguments of edit_distance drawn from EditInputs.
InitEdit == TopologyInit /\ FormatFactoryInit /\ TRRFileInit /\ EditInit

TopologySpec == Init /\ [][TopologyNext]_vars

FormatFactorySpec == Init /\ [][FormatFactoryNext]_vars

TRRFileSpec == Init /\ [][TRRFileNext]_vars

\* The three objects share no state: each is exercised while the other two
\* are as constructed.
TopologyAlone == FormatFactoryInit /\ TRRFileInit /\ TopologyNext
FormatFactoryAlone == TopologyInit /\ TRRFileInit /\ FormatFactoryNext
TRRFileAlone == TopologyInit /\ FormatFactoryInit /\ TRRFileNext

LibraryNext ==
    \/ TopologyAlone
    \/ FormatFactoryAlone
    \/ TRRFileAlone

LibrarySpec == Init /\ [][LibraryNext]_vars

EditSpec == InitEdit /\ [][EditNext]_vars

(***************************************************************************)
(* Properties                                                              *)
(***************************************************************************)
\* A step that is a call of the Topology operation op.
TopologyDone(op) ==
    /\ topo_result'.op = op
    /\ \/ topo_result.op # op
       \/ topo_result' # topo_result
       \/ atoms_' # atoms_
       \/ connect_' # connect_

\* C1: a resize(n) made while some bond has an endpoint >= n fails with an
\* error and leaves the atom sequence and the bond set as they were.
C1_FailedResizeChangesNothing ==
    [][\A n \in 0..MaxAtoms :
          (/\ topo_result'.op = "resize"
           /\ topo_result'.arg = <<n>>
           /\ \E bond \in connect_ : bond[1] >= n \/ bond[2] >= n)
          => (/\ topo_result'.outcome.kind = "Error"
              /\ atoms_' = atoms_
              /\ connect_' = connect_)]_vars

\* A failed resize(n) with n no larger than the largest bonded index.
C1_Witness ==
    /\ topo_result.op = "resize"
    /\ topo_result.outcome.kind = "Error"
    /\ \E bond \in connect_ : topo_result.arg[1] <= bond[2]
    /\ Len(atoms_) = MaxAtoms

\* C2: every bond of the topology has both indices below the atom count.
C2_BondIndicesBelowAtomCount ==
    \A bond \in connect_ : bond[1] < Len(atoms_) /\ bond[2] < Len(atoms_)

\* C3: no two entries of the registry share a name, no two share a
\* non-empty extension, and no entry has an empty name.
C3_RegistryUnique ==
    /\ \A i, j \in 1..Len(formats_) :
          i # j => /\ formats_[i].info.name # formats_[j].info.name
                   /\ (formats_[i].info.extension # <<>>
                         => formats_[i].info.extension # formats_[j].info.extension)
    /\ \A i \in 1..Len(formats_) : formats_[i].info.name # <<>>

\* Both threads have registered, one with success and one with a failure.
C3_Witness ==
    /\ Len(formats_) > Len(BuiltinTable)
    /\ \E t, u \in Threads :
          /\ pc[t] = "done" /\ call[t].op = "register_format"
          /\ result[t].kind = "FormatError"
          /\ pc[u] = "done" /\ call[u].op = "register_format"
          /\ result[u] = Ok

\* The three conditions under which a registration is refused.
Refused(formats, name, extension) ==
    \/ name = <<>>
    \/ \E k \in 1..Len(formats) : formats[k].info.name = name
    \/ /\ extension # <<>>
       /\ \E k \in 1..Len(formats) : formats[k].info.extension = extension

\* C4: while a register_format call is in progress the table changes only
\* when that call succeeds, and then by exactly one entry added at the end;
\* the call fails exactly when the name is empty, the name is registered
\* or the non-empty extension is registered, and then the table is as before.
C4_RegistrationAtomic ==
    [][\A t \in Threads :
          pc[t] \in {"register_check", "register_push"} =>
            /\ IF pc'[t] = "done" /\ result'[t] = Ok
               THEN formats_' = formats_ \o
                        <<RegisteredFormat(call[t].name, call[t].extension,
                                           call[t].creator, call[t].memory_stream)>>
               ELSE formats_' = formats_
            /\ pc'[t] = "done" =>
                  (result'[t].kind = "FormatError"
                     <=> Refused(formats_, call[t].name, call[t].extension))]_vars

\* A registration refused for its extension, on a table that has grown.
C4_Witness ==
    /\ Len(formats_) > Len(BuiltinTable)
    /\ \E t \in Threads :
          /\ pc[t] = "done" /\ call[t].op = "register_format"
          /\ result[t].kind = "FormatError"
          /\ result[t].message[1] = Lit("the extension '")

\* Levenshtein distance with unit costs, by its recursive definition.
RECURSIVE Levenshtein(_, _)
Levenshtein(a, b) ==
    IF a = <<>> THEN Len(b)
    ELSE IF b = <<>> THEN Len(a)
    ELSE Min({Levenshtein(Tail(a), b) + 1,
              Levenshtein(a, Tail(b)) + 1,
              Levenshtein(Tail(a), Tail(b)) + (IF Head(a) = Head(b) THEN 0 ELSE 1)})

LowerCased(s) == [k \in 1..Len(s) |-> tolower(s[k])]

\* The names a message suggests: its arguments after the query, in order.
IsArg(token) == DOMAIN token = {"arg"}
ArgsOf(message) ==
    LET args == SelectSeq(message, IsArg)
    IN [k \in 1..Len(args) |-> args[k].arg]
SuggestedBy(message) == Tail(ArgsOf(message))
HasSuggestionList(message) ==
    \E k \in 1..Len(message) : message[k] = Lit(", did you mean")

\* The queries that can fail, and their distance to every name.
UnknownNames ==
    {q \in QueryNames : \A k \in 1..Len(BuiltinFormats) : BuiltinFormats[k].name # q}
LevenshteinTable ==
    [name \in UnknownNames |->
        [other \in KnownNames |-> Levenshtein(LowerCased(name), LowerCased(other))]]

CloseNames(formats, name) ==
    SelectSeq(NamesOf(formats), LAMBDA other : LevenshteinTable[name][other] < 4)

\* C5: name(q) returns the creator of the entry named exactly q when there
\* is one; otherwise it throws a format error that suggests exactly the
\* registered names at case-insensitive edit distance < 4 from q, in
\* registration order, and has no suggestion list when there is none.
C5_NameLookup ==
    [][\A t \in Threads :
          (call[t].op = "name" /\ pc[t] # "done" /\ pc'[t] = "done") =>
            IF \E k \in 1..Len(formats_) : formats_[k].info.name = call[t].name
            THEN \E k \in 1..Len(formats_) :
                    /\ formats_[k].info.name = call[t].name
                    /\ result'[t] = Returned(formats_[k].creator)
            ELSE /\ result'[t].kind = "FormatError"
                 /\ SuggestedBy(result'[t].message) = CloseNames(formats_, call[t].name)
                 /\ HasSuggestionList(result'[t].message)
                       <=> CloseNames(formats_, call[t].name) # <<>>]_vars

\* A failed name("Ti") on a table holding XYZ, Tinker and a registered
\* xyz: XYZ and xyz are suggested and Tinker, at distance 4, is not. And a
\* failed name("HOOMD"), at distance 4 or more from every name of the
\* table: the message has no suggestion list.
C5_Witness ==
    /\ \E k \in 1..Len(formats_) : formats_[k].info.name = xyz
    /\ \E t \in Threads :
          /\ pc[t] = "done" /\ call[t].op = "name" /\ call[t].name = Ti
          /\ result[t].kind = "FormatError"
          /\ LET suggested == SuggestedBy(result[t].message)
             IN /\ \E k \in 1..Len(suggested) : suggested[k] = XYZ
                /\ \E k \in 1..Len(suggested) : suggested[k] = xyz
                /\ \A k \in 1..Len(suggested) : suggested[k] # Tinker
    /\ \E u \in Threads :
          /\ pc[u] = "done" /\ call[u].op = "name" /\ call[u].name = HOOMD
          /\ result[u].kind = "FormatError"
          /\ ~HasSuggestionList(result[u].message)
          /\ SuggestedBy(result[u].message) = <<>>
          /\ \E k \in 1..Len(formats_) :
                LevenshteinTable[HOOMD][formats_[k].info.name] = 4

\* C6: remove(idx) with idx < atom count takes one atom out, shifts the
\* atoms after idx down by one, and removes exactly the bonds that have idx
\* as an endpoint, leaving every other bond as it was; bonds (0,1),(1,2) on
\* 3 atoms and remove(1) give 2 atoms and no bond.
C6_Remove ==
    [][TopologyDone("remove") =>
          LET idx == topo_result'.arg[1]
          IN /\ Len(atoms_') = Len(atoms_) - 1
             /\ \A k \in 1..Len(atoms_') :
                   atoms_'[k] = IF k <= idx THEN atoms_[k] ELSE atoms_[k + 1]
             /\ connect_' = {bond \in connect_ : bond[1] # idx /\ bond[2] # idx}
             /\ (Len(atoms_) = 3 /\ connect_ = {<<0, 1>>, <<1, 2>>} /\ idx = 1)
                   => (Len(atoms_') = 2 /\ connect_' = {})]_vars

\* After remove(0) on three atoms bonded 0-1 and 1-2: bond 1-2 is kept.
C6_Witness ==
    /\ topo_result.op = "remove"
    /\ topo_result.arg = <<0>>
    /\ Len(atoms_) = 2
    /\ connect_ = {<<1, 2>>}

\* C7: when the lifetime of a TRRFile has ended, by a failed construction
\* or by destruction, every resource acquired was released exactly once and
\* nothing that was never acquired was released.
C7_ResourcesReleased ==
    trr.pc \in {"failed", "destroyed"} =>
        /\ res.handle_released = res.handle_acquired
        /\ res.table_released = res.table_acquired
        /\ res.stray_free = 0

\* C8 as stated: every status other than OK that the codec returned has
\* raised a file error naming the operation and carrying the codec's text.
C8_EveryStatusRaises ==
    (trr.pc # "none" /\ trr.header_read /\ trr.status # exdrOK) =>
        /\ trr.pc = "failed"
        /\ trr.error.kind = "FileError"
        /\ \E text \in {exdr_message[status] : status \in DOMAIN exdr_message} :
              ArgsOf(trr.error.message) = <<ReadHeaderCall, text>>

Holding == {"register_check", "register_push", "lookup_find", "lookup_suggest",
            "extension_find", "formats_copy"}

\* C9 as stated: the mutex is not held while the suggestion scan runs.
C9_ScanOutsideLock ==
    \A t \in Threads : pc[t] = "lookup_suggest" => mutex # t

\* C9, amended: a thread is inside a registry call exactly while it holds
\* the mutex, the suggestion scan included, so that no other thread is
\* inside a registry call during the scan.
C9_WholeCallUnderLock ==
    /\ \A t \in Threads : pc[t] \in Holding <=> mutex = t
    /\ \A t, u \in Threads :
          (pc[t] = "lookup_suggest" /\ u # t) => pc[u] \notin Holding

\* A suggestion scan in progress.
C9_Witness ==
    \E t \in Threads :
        /\ pc[t] = "lookup_suggest"
        /\ call[t].op = "memory_stream"
        /\ Len(formats_) > Len(BuiltinTable)

\* C10: edit_distance is symmetric, obeys the triangle inequality, is 0 on
\* equal strings, equals the unit-cost Levenshtein distance of the
\* lower-cased strings, and gives 0 for gro/gro and 2 for xyz/xtc.
C10_EditDistance ==
    ed_out.computed =>
        /\ ed_out.ab = ed_out.ba
        /\ ed_out.ac <= ed_out.ab + ed_out.bc
        /\ ed_out.aa = 0
        /\ ed_out.ab = Levenshtein(LowerCased(ed_in.a), LowerCased(ed_in.b))
        /\ (ed_in.a = gro /\ ed_in.b = gro) => ed_out.ab = 0
        /\ (ed_in.a = xyz /\ ed_in.b = xtc) => ed_out.ab = 2

\* The distances of xyz and xtc have been computed.
C10_Witness ==
    /\ ed_out.computed
    /\ ed_in.a = xyz
    /\ ed_in.b = xtc
    /\ ed_in.c = gro

IsPrefix(shorter, longer) ==
    /\ Len(shorter) <= Len(longer)
    /\ \A k \in 1..Len(shorter) : shorter[k] = longer[k]

FinishedWith(t, op) == pc[t] = "done" /\ call[t].op = op

\* C11: the table only grows at its end; formats() returns the info of
\* every entry in registration order, so a list returned earlier is a prefix
\* of the table and of every later list; a lookup by name or by non-empty
\* extension that has succeeded still finds the same creator.
C11_AppendOnly ==
    [][/\ IsPrefix(formats_, formats_')
       /\ \A t \in Threads :
             (call[t].op = "formats" /\ pc[t] # "done" /\ pc'[t] = "done") =>
                /\ result'[t].kind = "ok"
                /\ Len(result'[t].value) = Len(formats_)
                /\ \A k \in 1..Len(formats_) :
                      result'[t].value[k] = formats_[k].info
       /\ \A t \in Threads :
             FinishedWith(t, "formats")' =>
                LET later == [k \in 1..Len(formats_') |-> formats_'[k].info]
                IN IsPrefix(result'[t].value, later)
       /\ \A t \in Threads :
             (FinishedWith(t, "name")' /\ result'[t].kind = "ok") =>
                \E k \in 1..Len(formats_') :
                    /\ formats_'[k].info.name = call'[t].name
                    /\ formats_'[k].creator = result'[t].value
                    /\ find_by_name(formats_', call'[t].name) = k - 1
       /\ \A t \in Threads :
             (/\ FinishedWith(t, "extension")'
              /\ result'[t].kind = "ok"
              /\ call'[t].extension # <<>>) =>
                \E k \in 1..Len(formats_') :
                    /\ formats_'[k].info.extension = call'[t].extension
                    /\ formats_'[k].creator = result'[t].value
                    /\ find_by_extension(formats_', call'[t].extension) = k - 1]_vars

\* Two lists returned by formats(), the table having grown in between.
C11_Witness ==
    \E t, u \in Threads :
        /\ FinishedWith(t, "formats") /\ FinishedWith(u, "formats")
        /\ Len(result[t].value) = Len(BuiltinTable)
        /\ Len(result[u].value) = Len(BuiltinTable) + 2

\* C12: name(q) and memory_stream(q) with q not exactly equal to a
\* registered name fail and return no constructor, whatever is suggested
\* and even when q differs from a registered name in letter case only.
C12_NoSubstitute ==
    [][\A t \in Threads :
          (/\ call[t].op \in {"name", "memory_stream"}
           /\ pc[t] # "done" /\ pc'[t] = "done"
           /\ \A k \in 1..Len(formats_) : formats_[k].info.name # call[t].name)
          => (/\ result'[t].kind = "FormatError"
              /\ DOMAIN result'[t] = {"kind", "message"})]_vars

\* memory_stream("xyz") has failed on a table without xyz, suggesting XYZ,
\* the name at distance 0, first.
C12_Witness ==
    \E t \in Threads :
        /\ FinishedWith(t, "memory_stream")
        /\ call[t].name = xyz
        /\ result[t].kind = "FormatError"
        /\ Head(SuggestedBy(result[t].message)) = XYZ
        /\ \A k \in 1..Len(formats_) : formats_[k].info.name # xyz

\* C13: a registration without memory creator is refused exactly when the
\* name is empty, the name is registered or the non-empty extension is
\* registered; afterwards memory_stream(name) returns the constructor
\* registered for that name, and every call of it, whatever the arguments,
\* throws a format error that names the format.
C13_NoMemoryCreator ==
    [][\A t \in Threads :
          /\ (/\ pc[t] = "register_check" /\ pc'[t] # pc[t]
              /\ call[t].memory_stream.fn = "unsupported")
             => /\ (pc'[t] = "done" /\ result'[t].kind = "FormatError")
                      <=> Refused(formats_, call[t].name, call[t].extension)
                /\ pc'[t] # "done" => pc'[t] = "register_push"
          /\ (/\ pc[t] = "register_push" /\ pc'[t] = "done"
              /\ call[t].memory_stream.fn = "unsupported")
             => /\ result'[t] = Ok
                /\ formats_'[Len(formats_')].info.name = call[t].name
                /\ formats_'[Len(formats_')].memory_stream_creator.info.name
                      = call[t].name
          /\ (call[t].op = "memory_stream" /\ pc[t] # "done" /\ pc'[t] = "done")
             => \A k \in 1..Len(formats_) :
                   (/\ formats_[k].info.name = call[t].name
                    /\ formats_[k].memory_stream_creator.fn = "unsupported")
                   => /\ result'[t] = Returned(formats_[k].memory_stream_creator)
                      /\ result'[t].value.info.name = call[t].name
          /\ (/\ call[t].op = "memory_stream" /\ pc[t] = "done"
              /\ call'[t].op = "memory_stream_call"
              /\ result[t].value.fn = "unsupported")
             => /\ result'[t].kind = "FormatError"
                /\ ArgsOf(result'[t].message) = <<call[t].name>>]_vars

\* The constructor that memory_stream("xyz") returned for a format
\* registered without memory creator has been called for reading and threw.
C13_Witness ==
    \E t \in Threads :
        /\ FinishedWith(t, "memory_stream_call")
        /\ call[t].memory_stream.fn = "unsupported"
        /\ call[t].memory_stream.info.name = xyz
        /\ call[t].mode = "READ"
        /\ result[t].kind = "FormatError"

\* C14: on every table and for every query, name and memory_stream succeed
\* together, then returning the disk and the in-memory constructor of one
\* and the same entry, or fail together with the same error and message;
\* and what a finished call has returned or thrown is that result.
C14_NameAndMemoryStreamAgree ==
    [][/\ \A t \in Threads :
             (/\ call[t].op \in {"name", "memory_stream"}
              /\ pc[t] # "done" /\ pc'[t] = "done")
             => result'[t] = IF call[t].op = "name"
                             THEN name_result(formats_, call[t].name)
                             ELSE memory_stream_result(formats_, call[t].name)
       /\ formats_' # formats_ =>
             \A table \in {formats_, formats_'}, q \in QueryNames :
                LET disk == name_result(table, q)
                    memory == memory_stream_result(table, q)
                IN IF disk.kind = "ok"
                   THEN /\ memory.kind = "ok"
                        /\ \E k \in 1..Len(table) :
                              /\ table[k].info.name = q
                              /\ table[k].creator = disk.value
                              /\ table[k].memory_stream_creator = memory.value
                   ELSE /\ disk.kind = "FormatError"
                        /\ memory = disk]_vars

\* name("Ti") and memory_stream("Ti") have both failed on a table that
\* has grown.
C14_Witness ==
    /\ Len(formats_) > Len(BuiltinTable)
    /\ \E t, u \in Threads :
          /\ FinishedWith(t, "name") /\ call[t].name = Ti
          /\ FinishedWith(u, "memory_stream") /\ call[u].name = Ti
          /\ result[t].kind = "FormatError"
          /\ result[u] = result[t]

WithExtension(formats, extension) ==
    {k \in 1..Len(formats) : formats[k].info.extension = extension}

\* C15: extension(e) returns the creator of an entry whose extension is
\* exactly e when there is one; otherwise it throws a format error that
\* names e and suggests nothing; the table is the same afterwards.
C15_ExtensionLookup ==
    [][\A t \in Threads :
          pc[t] = "extension_find" =>
            /\ formats_' = formats_
            /\ pc'[t] # pc[t] =>
                  /\ pc'[t] = "done"
                  /\ IF WithExtension(formats_, call[t].extension) # {}
                     THEN \E k \in WithExtension(formats_, call[t].extension) :
                             result'[t] = Returned(formats_[k].creator)
                     ELSE /\ result'[t].kind = "FormatError"
                          /\ ArgsOf(result'[t].message) = <<call[t].extension>>
                          /\ ~HasSuggestionList(result'[t].message)
                          /\ Len(result'[t].message) = 3]_vars

\* extension(".new") has failed on a table that has grown.
C15_Witness ==
    /\ Len(formats_) > Len(BuiltinTable)
    /\ \E t \in Threads :
          /\ FinishedWith(t, "extension")
          /\ call[t].extension = dot_new
          /\ result[t].kind = "FormatError"

\* C18: at most one entry has a given non-empty extension, while several
\* may have the empty one; extension("") then returns the creator of the
\* earliest of them instead of failing.
C18_EmptyExtension ==
    [][/\ \A extension \in QueryExtensions \ {<<>>} :
             Cardinality(WithExtension(formats_', extension)) <= 1
       /\ \A t \in Threads :
             (/\ pc[t] = "extension_find" /\ pc'[t] = "done"
              /\ call[t].extension = <<>>
              /\ WithExtension(formats_, <<>>) # {})
             => LET earliest == Min(WithExtension(formats_, <<>>))
                IN result'[t] = Returned(formats_[earliest].creator)]_vars

\* Three entries with the empty extension and different creators, two of
\* them registered after construction, and extension("") has returned the
\* creator of the first.
C18_Witness ==
    LET empty == WithExtension(formats_, <<>>)
    IN /\ Cardinality(empty) = 3
       /\ Cardinality({formats_[k].creator : k \in empty}) = 3
       /\ \E t \in Threads :
             /\ FinishedWith(t, "extension")
             /\ call[t].extension = <<>>
             /\ result[t] = Returned(formats_[Min(empty)].creator)

\* C17: resize(n) with every bond endpoint below n succeeds, makes the
\* atom count n, keeps the atoms below min(old count, n), fills the new
\* positions with undefined atoms and keeps the bonds; append adds exactly
\* one atom; reserve changes neither atoms nor bonds.
C17_ResizeAppendReserve ==
    [][/\ \A n \in 0..MaxAtoms :
             (/\ topo_result'.op = "resize"
              /\ topo_result'.arg = <<n>>
              /\ \A bond \in connect_ : bond[1] < n /\ bond[2] < n)
             => /\ topo_result'.outcome = Ok
                /\ Len(atoms_') = n
                /\ \A p \in 1..Min({Len(atoms_), n}) : atoms_'[p] = atoms_[p]
                /\ \A p \in (Len(atoms_) + 1)..n : atoms_'[p] = UNDEFINED
                /\ connect_' = connect_
       /\ TopologyDone("append")
             => /\ topo_result'.outcome = Ok
                /\ Len(atoms_') = Len(atoms_) + 1
       /\ topo_result'.op = "reserve"
             => /\ topo_result'.outcome = Ok
                /\ atoms_' = atoms_
                /\ connect_' = connect_]_vars

\* A resize that succeeded with a bond present, kept a defined atom and
\* filled the last position with an undefined one.
C17_Witness ==
    /\ topo_result.op = "resize"
    /\ topo_result.outcome = Ok
    /\ connect_ # {}
    /\ Len(atoms_) = MaxAtoms
    /\ atoms_[1] = "C"
    /\ atoms_[MaxAtoms] = UNDEFINED

DerivedCategories == {"FileError", "MemoryError", "FormatError", "PluginError"}

\* C19: a registry call ends with its value or with a FormatError, a TRR
\* construction with a live file or with a FileError, a resize with the new
\* atom count or with a plain Error; a call that returned normally has done
\* what it was called for.
C19_FailureCategories ==
    /\ \A t \in Threads :
          /\ (pc[t] = "done" /\ call[t].op \in {"register_format", "name",
                   "memory_stream", "extension", "memory_stream_call"})
                => result[t].kind \in {"ok", "FormatError"}
          /\ (pc[t] = "done" /\ result[t].kind = "ok") =>
                /\ call[t].op = "register_format" =>
                      \E k \in 1..Len(formats_) :
                         /\ formats_[k].info.name = call[t].name
                         /\ formats_[k].info.extension = call[t].extension
                /\ call[t].op = "name" =>
                      \E k \in 1..Len(formats_) :
                         /\ formats_[k].info.name = call[t].name
                         /\ formats_[k].creator = result[t].value
                /\ call[t].op = "memory_stream" =>
                      \E k \in 1..Len(formats_) :
                         /\ formats_[k].info.name = call[t].name
                         /\ formats_[k].memory_stream_creator = result[t].value
                /\ call[t].op = "extension" =>
                      \E k \in 1..Len(formats_) :
                         /\ formats_[k].info.extension = call[t].extension
                         /\ formats_[k].creator = result[t].value
                /\ call[t].op = "memory_stream_call" =>
                      call[t].memory_stream.fn # "unsupported"
    /\ trr.pc # "none" =>
          /\ trr.pc \in {"failed", "crashed"} <=> trr.error # Ok
          /\ (trr.error # Ok /\ trr.handle_ = "nullptr")
                => trr.error.kind = "FileError"
          /\ trr.pc \in {"alive", "destroyed"} =>
                (trr.mode = "READ" => trr.header_read /\ trr.status = exdrOK)
    /\ topo_result.op = "resize" =>
          IF topo_result.outcome.kind = "ok"
          THEN /\ Len(atoms_) = topo_result.arg[1]
               /\ \A bond \in connect_ : /\ bond[1] < topo_result.arg[1]
                                          /\ bond[2] < topo_result.arg[1]
          ELSE /\ topo_result.outcome.kind = "Error"
               /\ topo_result.outcome.kind \notin DerivedCategories
    /\ topo_result.op # "resize" => topo_result.outcome.kind = "ok"

====
